---- MODULE Spec2Model ----
(***************************************************************************)
(* Model of backend/index.js: the OTP store, the four POST handlers and    *)
(* the two collaborators (mail transporter, payment gateway).              *)
(*                                                                         *)
(* JavaScript values are tagged records; strings are sequences of          *)
(* characters (one-character TLA+ strings, or longer literal chunks where  *)
(* the code uses a fixed literal).  Each handler runs to its first await   *)
(* in one step; the continuation after the await is a second step, so      *)
(* requests interleave exactly at the code's suspension points.            *)
(***************************************************************************)
EXTENDS Integers, Sequences, FiniteSets, TLC

VARIABLES
    otpStorage,   \* the Map of line 42: a function from keys to sessions
    now,          \* Date.now(), in milliseconds
    pending,      \* requests suspended at an await, oldest first
    last          \* the most recent response written by a handler

vars == <<otpStorage, now, pending, last>>

----------------------------------------------------------------------------
(* Bounds of the model *)

MaxTicks == 2        \* the clock advances at most this many times
MaxInFlight == 1     \* requests suspended at an await at the same time

----------------------------------------------------------------------------
(* JavaScript values *)

Undefined == [t |-> "undefined"]
Str(s) == [t |-> "string", v |-> s]
Num(n) == [t |-> "number", v |-> n]

\* !x for the values the model uses
Falsy(x) ==
    \/ x.t = "undefined"
    \/ x.t = "string" /\ x.v = <<>>
    \/ x.t = "number" /\ x.v = 0

DigitChars == <<"0", "1", "2", "3", "4", "5", "6", "7", "8", "9">>

RECURSIVE Digits(_)
\* Number.prototype.toString() of a non-negative integer
Digits(n) ==
    IF n < 10 THEN <<DigitChars[n + 1]>>
    ELSE Digits(n \div 10) \o <<DigitChars[(n % 10) + 1]>>

\* x.toString(), and the conversion a template literal applies
toString(x) ==
    CASE x.t = "string" -> x.v
      [] x.t = "number" -> Digits(x.v)
      [] OTHER -> <<"u", "n", "d", "e", "f", "i", "n", "e", "d">>

RECURSIVE PadStart(_, _, _)
\* String.prototype.padStart(n, c)
PadStart(s, n, c) ==
    IF Len(s) >= n THEN s ELSE PadStart(<<c>> \o s, n, c)

----------------------------------------------------------------------------
(* The Map otpStorage *)

EmptyMap == << >>

MapHas(m, k) == k \in DOMAIN m

\* mutant: the lookup ignores the key
MapGetIgnoringKey(m, k) ==
    IF DOMAIN m # {} THEN m[CHOOSE x \in DOMAIN m : TRUE] ELSE Undefined

MapGet(m, k) == IF k \in DOMAIN m THEN m[k] ELSE Undefined

\* mutant: an existing entry is kept
MapSetKeepsExisting(m, k, val) ==
    [x \in (DOMAIN m) \cup {k} |-> IF x \in DOMAIN m THEN m[x] ELSE val]

MapSet(m, k, val) ==
    [x \in (DOMAIN m) \cup {k} |-> IF x = k THEN val ELSE m[x]]

MapDelete(m, k) == [x \in (DOMAIN m) \ {k} |-> m[x]]

----------------------------------------------------------------------------
(* Utility functions *)

\* the values Math.random() returns are k / RandDenom, k in RandomDraws
RandomDraws == {0, 1}
RandDenom == Cardinality(RandomDraws)

\* Math.floor(100000 + Math.random() * 900000), Math.random() = k / RandDenom
RandomCode(k) == (100000 * RandDenom + k * 900000) \div RandDenom

\* Math.floor(100000 + Math.random() * 900000).toString()
generateOTP(k) == Digits(RandomCode(k))

\* mutant: expired from five minutes on
isOTPExpiredAtFiveMinutes(timestamp) == now - timestamp >= 5 * 60 * 1000

\* mutant: a window of ten minutes
isOTPExpiredTenMinutes(timestamp) == now - timestamp > 10 * 60 * 1000

\* Date.now() - timestamp > 5 * 60 * 1000
isOTPExpired(timestamp) == now - timestamp > 5 * 60 * 1000

Whitespace == {" ", "\t", "\n"}

\* [^\s@]
NotSpaceNorAt(c) == c \notin Whitespace /\ c # "@"

\* /^[^\s@]+@[^\s@]+\.[^\s@]+$/.test(s): i is the "@", j the "." of the match
isValidEmail(s) ==
    \E i \in 1..Len(s) : \E j \in 1..Len(s) :
        /\ 1 < i /\ i + 1 < j /\ j < Len(s)
        /\ s[i] = "@"
        /\ s[j] = "."
        /\ \A k \in 1..Len(s) : k # i => NotSpaceNorAt(s[k])

----------------------------------------------------------------------------
(* Environment: process.env and the values requests carry *)

\* process.env.RAZORPAY_KEY_SECRET
KeySecret == <<"s", "3", "c", "r", "3", "t">>

EmailA == <<"a", "@", "b", ".", "c">>
EmailNoDot == <<"a", "@", "b">>
EmailSpaced == <<"a", " ", "@", "b", ".", "c">>

\* req.body.email of POST /api/send-otp
IssueEmails == {Undefined, Str(<<>>), Str(EmailA), Str(EmailNoDot), Str(EmailSpaced)}

\* req.body.email of the other routes
KeyEmails == {Undefined, Str(EmailA), Str(EmailNoDot)}

\* the codes generateOTP can return
Codes == {generateOTP(k) : k \in RandomDraws}

\* req.body.otp: a code as a JSON string or as a JSON number, or a falsy value
SubmittedOtps ==
    {Undefined, Num(0), Num(RandomCode(0))} \cup {Str(c) : c \in Codes}

OrderIds == {Str(<<"o">>)}
PaymentIds == {Str(<<"p">>), Str(<<"q">>)}

\* crypto.createHmac('sha256', key).update(data).digest('hex'): the digest is kept
\* symbolic, a string that determines key and data (HMAC-SHA256 without collisions)
HmacSha256Hex(key, data) == <<"hmac-sha256(">> \o key \o <<")(">> \o data \o <<")">>

\* req.body.razorpay_signature: the gateway's signature of the pair (o, p), or none
Signatures == {Str(HmacSha256Hex(KeySecret, <<"o", "|", "p">>)), Undefined}

SendOtpRequests == {[email |-> e] : e \in IssueEmails}
VerifyOtpRequests ==
    {[email |-> e, otp |-> o] : e \in KeyEmails \ {Undefined}, o \in SubmittedOtps}
        \cup {[email |-> Undefined, otp |-> Str(generateOTP(0))]}
CreateOrderRequests == {[email |-> e] : e \in KeyEmails}
VerifyPaymentRequests ==
    {r \in [razorpay_order_id : OrderIds, razorpay_payment_id : PaymentIds,
            razorpay_signature : Signatures, email : KeyEmails \ {Undefined}] :
        r.razorpay_signature = Undefined => r.razorpay_payment_id = Str(<<"p">>)}

\* crypto.randomBytes(4).toString('hex')
ReceiptSuffixes == {<<"0", "0", "0", "0", "0", "0", "0", "0">>}

\* the ids the gateway gives the orders it creates
GatewayOrderIds == {<<"o">>}

----------------------------------------------------------------------------
(* Responses *)

NoMail == [to |-> Undefined, subject |-> "", otp |-> <<>>, attachments |-> <<>>]

NoResponse ==
    [n |-> 0, route |-> "", req |-> [email |-> Undefined], status |-> 0,
     body |-> [error |-> ""], calls |-> 0, mail |-> NoMail, scenario |-> ""]

\* An observer of the response stream, kept with the response: which of the
\* scenarios of consecutive responses for one email the new response completes.
\*   issued -> verified -> ordered -> delivered : the purchase, step by step
\*   expired -> gone        : a verify-otp with the session's code answered
\*                            Expired, and the same request was repeated
\*   mismatch -> recovered  : a successful verify-otp right after a Mismatch
\*   undelivered -> unmailed-verified : the dispatch of the code failed, and the
\*                            next request verified the email all the same
\*   failed-order -> reordered : the gateway rejected an order, and the next
\*                            request for the email obtained one
\*   at-limit               : a successful verify-otp on a session aged exactly
\*                            five minutes
Scenario(route, req, status, body) ==
    LET same == req.email = last.req.email IN
    CASE route = "send-otp" /\ status = 200 -> "issued"
      [] route = "verify-otp" /\ status = 200 /\ same /\ last.scenario = "issued"
            -> "verified"
      [] route = "verify-otp" /\ status = 200 /\ same /\ last.scenario = "mismatch"
            -> "recovered"
      [] route = "send-otp" /\ status = 500 -> "undelivered"
      [] route = "verify-otp" /\ status = 200 /\ same /\ last.scenario = "undelivered"
            -> "unmailed-verified"
      [] route = "verify-otp" /\ status = 200 /\ MapHas(otpStorage, req.email)
            /\ now - otpStorage[req.email].timestamp = 5 * 60 * 1000 -> "at-limit"
      [] route = "verify-otp" /\ body = [error |-> "Invalid OTP."] -> "mismatch"
      [] route = "verify-otp" /\ body = [error |-> "OTP expired. Please request a new one."]
            /\ otpStorage[req.email].otp = toString(req.otp) -> "expired"
      [] route = "verify-otp" /\ body = [error |-> "Please request an OTP first."]
            /\ req = last.req /\ last.scenario = "expired" -> "gone"
      [] route = "create-order" /\ status = 200 /\ same /\ last.scenario = "verified"
            -> "ordered"
      [] route = "create-order" /\ status = 500 -> "failed-order"
      [] route = "create-order" /\ status = 200 /\ same
            /\ last.scenario = "failed-order" -> "reordered"
      [] route = "verify-payment" /\ status = 200 /\ same /\ last.scenario = "ordered"
            /\ req.razorpay_order_id = last.body.id -> "delivered"
      [] OTHER -> ""

\* res.status(status).json(body); n flips with every response, calls counts the
\* collaborator invocations the request made, mail is what the transporter accepted
Response(route, req, status, body, calls, mail) ==
    [n |-> 1 - last.n, route |-> route, req |-> req, status |-> status,
     body |-> body, calls |-> calls, mail |-> mail,
     scenario |-> Scenario(route, req, status, body)]

RemoveAt(s, i) == SubSeq(s, 1, i - 1) \o SubSeq(s, i + 1, Len(s))

----------------------------------------------------------------------------
(* POST /api/send-otp *)

\* mutant: the session is issued already verified
NewSessionVerified(otp) == [otp |-> otp, timestamp |-> now, verified |-> TRUE]

\* the session of line 82
NewSession(otp) == [otp |-> otp, timestamp |-> now, verified |-> FALSE]

OtpMail(email, otp) ==
    [to |-> email, subject |-> "Your BAZINGA! Verification Code", otp |-> otp,
     attachments |-> <<>>]

\* lines 76-96: up to the await on transporter.sendMail
SendOtp(req, k) ==
    LET email == req.email IN
    IF Falsy(email) \/ ~isValidEmail(toString(email))
    THEN /\ last' = Response("send-otp", req, 400,
                             [error |-> "Valid email is required"], 0, NoMail)
         /\ UNCHANGED <<otpStorage, now, pending>>
    ELSE LET otp == generateOTP(k) IN
         /\ otpStorage' = MapSet(otpStorage, email, NewSession(otp))
         /\ pending' = Append(pending, [route |-> "send-otp", req |-> req,
                                        mail |-> OtpMail(email, otp),
                                        calls |-> 1])
         /\ UNCHANGED <<now, last>>

\* mutant: a failed dispatch takes back the session of line 82
SendOtpDoneRollsBack(i, delivered) ==
    /\ i \in 1..Len(pending)
    /\ pending[i].route = "send-otp"
    /\ last' = IF delivered
               THEN Response("send-otp", pending[i].req, 200,
                             [success |-> TRUE, message |-> "OTP sent successfully"],
                             pending[i].calls, pending[i].mail)
               ELSE Response("send-otp", pending[i].req, 500,
                             [error |-> "Failed to send OTP"], pending[i].calls, NoMail)
    /\ pending' = RemoveAt(pending, i)
    /\ otpStorage' = IF delivered THEN otpStorage
                     ELSE MapDelete(otpStorage, pending[i].req.email)
    /\ UNCHANGED now

\* mutant: the session is stored once the mail is out
SendOtpDoneStoresAfterMail(i, delivered) ==
    /\ i \in 1..Len(pending)
    /\ pending[i].route = "send-otp"
    /\ last' = IF delivered
               THEN Response("send-otp", pending[i].req, 200,
                             [success |-> TRUE, message |-> "OTP sent successfully"],
                             pending[i].calls, pending[i].mail)
               ELSE Response("send-otp", pending[i].req, 500,
                             [error |-> "Failed to send OTP"], pending[i].calls, NoMail)
    /\ pending' = RemoveAt(pending, i)
    /\ otpStorage' = IF delivered
                     THEN MapSet(otpStorage, pending[i].req.email,
                                 NewSession(pending[i].mail.otp))
                     ELSE otpStorage
    /\ UNCHANGED now

\* lines 96-102: sendMail resolves (delivered) or rejects
SendOtpDone(i, delivered) ==
    /\ i \in 1..Len(pending)
    /\ pending[i].route = "send-otp"
    /\ last' = IF delivered
               THEN Response("send-otp", pending[i].req, 200,
                             [success |-> TRUE, message |-> "OTP sent successfully"],
                             pending[i].calls, pending[i].mail)
               ELSE Response("send-otp", pending[i].req, 500,
                             [error |-> "Failed to send OTP"], pending[i].calls, NoMail)
    /\ pending' = RemoveAt(pending, i)
    /\ UNCHANGED <<otpStorage, now>>

----------------------------------------------------------------------------
(* POST /api/verify-otp *)

\* mutant: only the lengths are compared
OtpMatchesSameLength(otpData, otp) == Len(otpData.otp) = Len(toString(otp))

\* otpData.otp !== otp.toString(), negated
OtpMatches(otpData, otp) == otpData.otp = toString(otp)

\* mutant: the verified session is rebuilt with a new timestamp
VerifiedSessionRestamped(otpData) ==
    [otp |-> otpData.otp, timestamp |-> now, verified |-> TRUE]

\* { ...otpData, verified: true }
VerifiedSession(otpData) == [otpData EXCEPT !.verified = TRUE]

\* mutant: a wrong code costs the session
VerifyOtpDropsOnMismatch(req) ==
    LET email == req.email
        otp == req.otp
        otpData == MapGet(otpStorage, email)
    IN
    /\ UNCHANGED <<now, pending>>
    /\ IF Falsy(email) \/ Falsy(otp)
       THEN /\ last' = Response("verify-otp", req, 400,
                                [error |-> "Email and OTP are required"], 0, NoMail)
            /\ UNCHANGED otpStorage
       ELSE IF otpData = Undefined
       THEN /\ last' = Response("verify-otp", req, 400,
                                [error |-> "Please request an OTP first."], 0, NoMail)
            /\ UNCHANGED otpStorage
       ELSE IF isOTPExpired(otpData.timestamp)
       THEN /\ otpStorage' = MapDelete(otpStorage, email)
            /\ last' = Response("verify-otp", req, 400,
                                [error |-> "OTP expired. Please request a new one."],
                                0, NoMail)
       ELSE IF ~OtpMatches(otpData, otp)
       THEN /\ last' = Response("verify-otp", req, 400,
                                [error |-> "Invalid OTP."], 0, NoMail)
            /\ otpStorage' = MapDelete(otpStorage, email)
       ELSE /\ otpStorage' = MapSet(otpStorage, email, VerifiedSession(otpData))
            /\ last' = Response("verify-otp", req, 200,
                                [success |-> TRUE,
                                 message |-> "Email verified successfully"], 0, NoMail)

\* mutant: the code is compared before the age is tested
VerifyOtpMatchFirst(req) ==
    LET email == req.email
        otp == req.otp
        otpData == MapGet(otpStorage, email)
    IN
    /\ UNCHANGED <<now, pending>>
    /\ IF Falsy(email) \/ Falsy(otp)
       THEN /\ last' = Response("verify-otp", req, 400,
                                [error |-> "Email and OTP are required"], 0, NoMail)
            /\ UNCHANGED otpStorage
       ELSE IF otpData = Undefined
       THEN /\ last' = Response("verify-otp", req, 400,
                                [error |-> "Please request an OTP first."], 0, NoMail)
            /\ UNCHANGED otpStorage
       ELSE IF ~OtpMatches(otpData, otp)
       THEN /\ last' = Response("verify-otp", req, 400,
                                [error |-> "Invalid OTP."], 0, NoMail)
            /\ UNCHANGED otpStorage
       ELSE IF isOTPExpired(otpData.timestamp)
       THEN /\ otpStorage' = MapDelete(otpStorage, email)
            /\ last' = Response("verify-otp", req, 400,
                                [error |-> "OTP expired. Please request a new one."],
                                0, NoMail)
       ELSE /\ otpStorage' = MapSet(otpStorage, email, VerifiedSession(otpData))
            /\ last' = Response("verify-otp", req, 200,
                                [success |-> TRUE,
                                 message |-> "Email verified successfully"], 0, NoMail)

\* lines 110-129: the handler has no await
VerifyOtp(req) ==
    LET email == req.email
        otp == req.otp
        otpData == MapGet(otpStorage, email)
    IN
    /\ UNCHANGED <<now, pending>>
    /\ IF Falsy(email) \/ Falsy(otp)
       THEN /\ last' = Response("verify-otp", req, 400,
                                [error |-> "Email and OTP are required"], 0, NoMail)
            /\ UNCHANGED otpStorage
       ELSE IF otpData = Undefined
       THEN /\ last' = Response("verify-otp", req, 400,
                                [error |-> "Please request an OTP first."], 0, NoMail)
            /\ UNCHANGED otpStorage
       ELSE IF isOTPExpired(otpData.timestamp)
       THEN /\ otpStorage' = MapDelete(otpStorage, email)
            /\ last' = Response("verify-otp", req, 400,
                                [error |-> "OTP expired. Please request a new one."],
                                0, NoMail)
       ELSE IF ~OtpMatches(otpData, otp)
       THEN /\ last' = Response("verify-otp", req, 400,
                                [error |-> "Invalid OTP."], 0, NoMail)
            /\ UNCHANGED otpStorage
       ELSE /\ otpStorage' = MapSet(otpStorage, email, VerifiedSession(otpData))
            /\ last' = Response("verify-otp", req, 200,
                                [success |-> TRUE,
                                 message |-> "Email verified successfully"], 0, NoMail)

----------------------------------------------------------------------------
(* POST /api/create-order *)

\* mutant: the gate tests only that a session exists
IsVerifiedAnySession(otpData) == otpData # Undefined

\* mutant: the gate also refuses a session older than five minutes
IsVerifiedAndFresh(otpData) ==
    otpData # Undefined /\ otpData.verified /\ ~isOTPExpired(otpData.timestamp)

\* !otpData || !otpData.verified, negated
IsVerified(otpData) == otpData # Undefined /\ otpData.verified

\* the options of lines 143-148
OrderOptions(email, suffix) ==
    [amount |-> 150, currency |-> "INR",
     receipt |-> <<"receipt_order_">> \o suffix,
     notes |-> [user_email |-> email]]

\* the order object razorpay.orders.create resolves to
GatewayOrder(id, options) ==
    [id |-> id, amount |-> options.amount, currency |-> options.currency,
     receipt |-> options.receipt, notes |-> options.notes]

\* lines 137-151: up to the await on razorpay.orders.create; aged records whether
\* the session was older than five minutes when the gate of line 139 let it pass
CreateOrder(req, suffix) ==
    LET email == req.email
        otpData == MapGet(otpStorage, email)
    IN
    IF ~IsVerified(otpData)
    THEN /\ last' = Response("create-order", req, 403,
                             [error |-> "Email not verified."], 0, NoMail)
         /\ UNCHANGED <<otpStorage, now, pending>>
    ELSE /\ pending' = Append(pending, [route |-> "create-order", req |-> req,
                                        options |-> OrderOptions(email, suffix),
                                        calls |-> 1,
                                        aged |-> now - otpData.timestamp > 5 * 60 * 1000])
         /\ UNCHANGED <<otpStorage, now, last>>

\* mutant: a rejected order is asked for a second time
CreateOrderDoneRetries(i, id) ==
    /\ i \in 1..Len(pending)
    /\ pending[i].route = "create-order"
    /\ IF id = Undefined /\ pending[i].calls < 2
       THEN /\ pending' = [pending EXCEPT ![i].calls = 2]
            /\ UNCHANGED <<otpStorage, now, last>>
       ELSE /\ last' = IF id # Undefined
                       THEN Response("create-order", pending[i].req, 200,
                                     GatewayOrder(id, pending[i].options),
                                     pending[i].calls, NoMail)
                       ELSE Response("create-order", pending[i].req, 500,
                                     [error |-> "Failed to create order"],
                                     pending[i].calls, NoMail)
            /\ pending' = RemoveAt(pending, i)
            /\ UNCHANGED <<otpStorage, now>>

\* mutant: a rejected order takes the session with it
CreateOrderDoneDropsSession(i, id) ==
    /\ i \in 1..Len(pending)
    /\ pending[i].route = "create-order"
    /\ last' = IF id # Undefined
               THEN Response("create-order", pending[i].req, 200,
                             GatewayOrder(id, pending[i].options), pending[i].calls, NoMail)
               ELSE Response("create-order", pending[i].req, 500,
                             [error |-> "Failed to create order"], pending[i].calls, NoMail)
    /\ pending' = RemoveAt(pending, i)
    /\ otpStorage' = IF id # Undefined THEN otpStorage
                     ELSE MapDelete(otpStorage, pending[i].req.email)
    /\ UNCHANGED now

\* lines 151-156: orders.create resolves to an order, or rejects (id = Undefined)
CreateOrderDone(i, id) ==
    /\ i \in 1..Len(pending)
    /\ pending[i].route = "create-order"
    /\ last' = IF id # Undefined
               THEN Response("create-order", pending[i].req, 200,
                             GatewayOrder(id, pending[i].options), pending[i].calls, NoMail)
               ELSE Response("create-order", pending[i].req, 500,
                             [error |-> "Failed to create order"], pending[i].calls, NoMail)
    /\ pending' = RemoveAt(pending, i)
    /\ UNCHANGED <<otpStorage, now>>

----------------------------------------------------------------------------
(* POST /api/verify-payment *)

\* lines 166-170
expectedSignature(req) ==
    HmacSha256Hex(KeySecret,
                  toString(req.razorpay_order_id) \o <<"|">>
                      \o toString(req.razorpay_payment_id))

\* mutant: any signature string is accepted
SignatureMatchesAnyString(req) == req.razorpay_signature.t = "string"

\* expectedSignature !== razorpay_signature, negated
SignatureMatches(req) ==
    /\ req.razorpay_signature.t = "string"
    /\ req.razorpay_signature.v = expectedSignature(req)

\* mutant: the loop runs while i < 11
AttachmentsOneShort ==
    [i \in 1..10 |->
        LET number == PadStart(Digits(i), 2, "0") IN
        [filename |-> <<"bazinga_">> \o number \o <<".jpg">>,
         path |-> <<"files/", "bazinga_">> \o number \o <<".jpg">>]]

\* lines 181-188
Attachments ==
    [i \in 1..11 |->
        LET number == PadStart(Digits(i), 2, "0") IN
        [filename |-> <<"bazinga_">> \o number \o <<".jpg">>,
         path |-> <<"files/", "bazinga_">> \o number \o <<".jpg">>]]

\* the mailOptions of lines 190-207
DeliverableMail(email) ==
    [to |-> email, subject |-> "Here is your Big Bang Theory Image Collection!",
     otp |-> <<>>, attachments |-> Attachments]

\* lines 164-210: up to the await on transporter.sendMail
VerifyPayment(req) ==
    IF ~SignatureMatches(req)
    THEN /\ last' = Response("verify-payment", req, 400,
                             [status |-> "error",
                              message |-> "Invalid payment signature."], 0, NoMail)
         /\ UNCHANGED <<otpStorage, now, pending>>
    ELSE /\ pending' = Append(pending, [route |-> "verify-payment", req |-> req,
                                        mail |-> DeliverableMail(req.email),
                                        calls |-> 1])
         /\ UNCHANGED <<otpStorage, now, last>>

\* mutant: the cleanup runs whether or not the mail was delivered
VerifyPaymentDoneAlwaysCleans(i, delivered) ==
    /\ i \in 1..Len(pending)
    /\ pending[i].route = "verify-payment"
    /\ otpStorage' = MapDelete(otpStorage, pending[i].req.email)
    /\ last' = IF delivered
               THEN Response("verify-payment", pending[i].req, 200,
                             [status |-> "success",
                              message |-> "Payment successful and images sent!"],
                             pending[i].calls, pending[i].mail)
               ELSE Response("verify-payment", pending[i].req, 500,
                             [status |-> "error",
                              message |-> "Payment verified, but email failed."],
                             pending[i].calls, NoMail)
    /\ pending' = RemoveAt(pending, i)
    /\ UNCHANGED now

\* lines 210-217: sendMail resolves (delivered) or rejects
VerifyPaymentDone(i, delivered) ==
    /\ i \in 1..Len(pending)
    /\ pending[i].route = "verify-payment"
    /\ IF delivered
       THEN /\ otpStorage' = MapDelete(otpStorage, pending[i].req.email)
            /\ last' = Response("verify-payment", pending[i].req, 200,
                                [status |-> "success",
                                 message |-> "Payment successful and images sent!"],
                                pending[i].calls, pending[i].mail)
       ELSE /\ last' = Response("verify-payment", pending[i].req, 500,
                                [status |-> "error",
                                 message |-> "Payment verified, but email failed."],
                                pending[i].calls, NoMail)
            /\ UNCHANGED otpStorage
    /\ pending' = RemoveAt(pending, i)
    /\ UNCHANGED now

----------------------------------------------------------------------------
(* The clock, and the specification *)

\* the clock moves in steps of the expiry window
TickMs == 5 * 60 * 1000

Tick ==
    /\ now < MaxTicks * TickMs
    /\ now' = now + TickMs
    /\ UNCHANGED <<otpStorage, pending, last>>

Init ==
    /\ otpStorage = EmptyMap
    /\ now = 0
    /\ pending = << >>
    /\ last = NoResponse

\* what razorpay.orders.create ends with: an order id, or Undefined for a rejection
OrderOutcomes == {Str(o) : o \in GatewayOrderIds} \cup {Undefined}

\* a request is taken only while at most MaxInFlight requests are suspended
Next ==
    \/ Tick
    \/ \E req \in SendOtpRequests : \E k \in RandomDraws :
           SendOtp(req, k) /\ Len(pending') <= MaxInFlight
    \/ \E i \in 1..MaxInFlight : \E delivered \in BOOLEAN : SendOtpDone(i, delivered)
    \/ \E req \in VerifyOtpRequests : VerifyOtp(req)
    \/ \E req \in CreateOrderRequests : \E suffix \in ReceiptSuffixes :
           CreateOrder(req, suffix) /\ Len(pending') <= MaxInFlight
    \/ \E i \in 1..MaxInFlight : \E id \in OrderOutcomes : CreateOrderDone(i, id)
    \/ \E req \in VerifyPaymentRequests :
           VerifyPayment(req) /\ Len(pending') <= MaxInFlight
    \/ \E i \in 1..MaxInFlight : \E delivered \in BOOLEAN : VerifyPaymentDone(i, delivered)

Spec == Init /\ [][Next]_vars

----------------------------------------------------------------------------
(* The same handlers with several requests suspended at once, all of them for
   one email and past the validation of their fields *)

\* how many requests may be suspended at once
MaxRacing == 2

RaceEmail == Str(EmailA)

\* a verify-otp with any of the codes generateOTP returns
RaceVerifyOtpRequests == {[email |-> RaceEmail, otp |-> Str(c)] : c \in Codes}

\* the verify-payment of the order o and the payment p, signed by the gateway
RacePayment ==
    [razorpay_order_id |-> Str(<<"o">>), razorpay_payment_id |-> Str(<<"p">>),
     razorpay_signature |-> Str(HmacSha256Hex(KeySecret, <<"o", "|", "p">>)),
     email |-> RaceEmail]

InitRace == Init

NextRace ==
    \/ Tick
    \/ \E k \in RandomDraws :
           SendOtp([email |-> RaceEmail], k) /\ Len(pending') <= MaxRacing
    \/ \E i \in 1..MaxRacing : \E delivered \in BOOLEAN : SendOtpDone(i, delivered)
    \/ \E req \in RaceVerifyOtpRequests : VerifyOtp(req)
    \/ \E suffix \in ReceiptSuffixes :
           CreateOrder([email |-> RaceEmail], suffix) /\ Len(pending') <= MaxRacing
    \/ \E i \in 1..MaxRacing : \E id \in OrderOutcomes : CreateOrderDone(i, id)
    \/ VerifyPayment(RacePayment) /\ Len(pending') <= MaxRacing
    \/ \E i \in 1..MaxRacing : \E delivered \in BOOLEAN : VerifyPaymentDone(i, delivered)

SpecRace == InitRace /\ [][NextRace]_vars

----------------------------------------------------------------------------
(* Vocabulary of the properties *)

FiveMinutesMs == 5 * 60 * 1000

\* the step writes the response of a request of this route
Answers(route) == last'.n # last.n /\ last'.route = route

\* the step writes a response without ending an await: the handler returned
\* before it called a collaborator
AnswersAtOnce(route) == Answers(route) /\ pending' = pending

\* the step ends an await of a request of this route and writes its response
Completes(route) == Answers(route) /\ Len(pending') < Len(pending)

\* the step takes a request of this route to its await: the collaborator is called
Starts(route) ==
    /\ Len(pending') = Len(pending) + 1
    /\ pending'[Len(pending')].route = route

\* the request the step suspended
Started == pending'[Len(pending')]

HasFields(req) == ~Falsy(req.email) /\ ~Falsy(req.otp)

\* the session the store holds for the request's email, before the step
Session(req) == otpStorage[req.email]

SubmitsStoredCode(req) ==
    MapHas(otpStorage, req.email) /\ toString(req.otp) = Session(req).otp

Age(req) == now - Session(req).timestamp

Success(r) ==
    r.status = 200 /\ r.body = [success |-> TRUE, message |-> "Email verified successfully"]
InvalidInput(r) ==
    r.status = 400 /\ r.body = [error |-> "Email and OTP are required"]
NoSessionFound(r) ==
    r.status = 400 /\ r.body = [error |-> "Please request an OTP first."]
Expired(r) ==
    r.status = 400 /\ r.body = [error |-> "OTP expired. Please request a new one."]
Mismatch(r) ==
    r.status = 400 /\ r.body = [error |-> "Invalid OTP."]
NotVerified(r) ==
    r.status = 403 /\ r.body = [error |-> "Email not verified."]
SignatureMismatch(r) ==
    r.status = 400 /\ r.body = [status |-> "error", message |-> "Invalid payment signature."]

ValidEmail(e) == e.t = "string" /\ isValidEmail(e.v)

----------------------------------------------------------------------------
(* C1 *)

\* C1: a verify-otp that submits the code of a session send-otp has just written
\* (not yet verified), at an age of at most five minutes, answers 200 success and
\* leaves the session with verified = TRUE and the same code and issuedAt.
C1_IssueThenVerifySucceeds ==
    [][(/\ Answers("verify-otp")
        /\ HasFields(last'.req)
        /\ SubmitsStoredCode(last'.req)
        /\ ~Session(last'.req).verified
        /\ Age(last'.req) <= FiveMinutesMs)
       => /\ Success(last')
          /\ otpStorage' = [otpStorage EXCEPT ![last'.req.email] =
                               [otp |-> Session(last'.req).otp,
                                timestamp |-> Session(last'.req).timestamp,
                                verified |-> TRUE]]]_vars

\* a verify-otp succeeded right after the send-otp for the same valid email, some
\* time after the issuance, and the session is verified
C1_Witness ==
    /\ last.scenario = "verified"
    /\ ValidEmail(last.req.email)
    /\ MapHas(otpStorage, last.req.email)
    /\ otpStorage[last.req.email].verified
    /\ otpStorage[last.req.email].timestamp < now

----------------------------------------------------------------------------
(* C2 *)

\* C2: within one session, once verify-otp has succeeded (the session is
\* verified), a verify-otp with the same email and the same code does not succeed
\* again.
C2_CodeIsSingleUse ==
    [][(/\ Answers("verify-otp")
        /\ HasFields(last'.req)
        /\ SubmitsStoredCode(last'.req)
        /\ Session(last'.req).verified)
       => ~Success(last')]_vars

----------------------------------------------------------------------------
(* C3 *)

\* C3: create-order calls the order-creation collaborator only when the store
\* holds a verified session for the request's email; when it answers without
\* calling it, there is no such session, the answer is 403 NotVerified and the
\* store is unchanged.
C3_OrderOnlyWhenVerified ==
    [][/\ Starts("create-order")
          => /\ MapHas(otpStorage, Started.req.email)
             /\ Session(Started.req).verified
             /\ otpStorage' = otpStorage
       /\ AnswersAtOnce("create-order")
          => /\ ~(MapHas(otpStorage, last'.req.email) /\ Session(last'.req).verified)
             /\ NotVerified(last')
             /\ last'.calls = 0
             /\ otpStorage' = otpStorage]_vars

\* create-order was refused for a valid email whose session exists but is unverified
C3_Witness ==
    /\ last.route = "create-order"
    /\ NotVerified(last)
    /\ ValidEmail(last.req.email)
    /\ MapHas(otpStorage, last.req.email)
    /\ ~otpStorage[last.req.email].verified

----------------------------------------------------------------------------
(* C4 *)

\* the hex HMAC-SHA256 of orderId + "|" + paymentId under the shared secret
SignatureOf(req) ==
    Str(HmacSha256Hex(KeySecret,
                      toString(req.razorpay_order_id) \o <<"|">>
                          \o toString(req.razorpay_payment_id)))

\* C4: verify-payment hands the deliverable mail to the transporter only when the
\* claimed signature is the HMAC of orderId|paymentId; when it answers without
\* dispatching, the signature differs, the answer is 400 SignatureMismatch, no
\* mail is sent and the store is unchanged.
C4_DeliverOnlyWhenSigned ==
    [][/\ Starts("verify-payment")
          => Started.req.razorpay_signature = SignatureOf(Started.req)
       /\ AnswersAtOnce("verify-payment")
          => /\ last'.req.razorpay_signature # SignatureOf(last'.req)
             /\ SignatureMismatch(last')
             /\ last'.calls = 0
             /\ last'.mail = NoMail
             /\ otpStorage' = otpStorage]_vars

\* a verify-payment carrying the signature of another payment was refused while
\* the email held a verified session
C4_Witness ==
    /\ last.route = "verify-payment"
    /\ SignatureMismatch(last)
    /\ last.req.razorpay_signature.t = "string"
    /\ MapHas(otpStorage, last.req.email)
    /\ otpStorage[last.req.email].verified

----------------------------------------------------------------------------
(* C5 *)

\* bazinga_NN.jpg for the two-digit NN of i
DeliverableName(i) ==
    <<"bazinga_", DigitChars[(i \div 10) + 1], DigitChars[(i % 10) + 1], ".jpg">>

\* C5: when verify-payment completes the sequence send-otp, verify-otp,
\* create-order, verify-payment, each successful and for the same email, it
\* answers success, the mail it dispatched went to that email with exactly 11
\* attachments named 01 to 11, and the store holds no session for the email; a
\* verify-otp for the email that follows (with no session issued since) answers
\* NoSessionFound.
C5_EndToEnd ==
    [][/\ (Answers("verify-payment") /\ last'.scenario = "delivered")
          => /\ last'.status = 200
             /\ last'.body = [status |-> "success",
                              message |-> "Payment successful and images sent!"]
             /\ last'.mail.to = last'.req.email
             /\ Len(last'.mail.attachments) = 11
             /\ \A i \in 1..11 : last'.mail.attachments[i].filename = DeliverableName(i)
             /\ ~MapHas(otpStorage', last'.req.email)
       /\ (/\ last.scenario = "delivered"
           /\ Answers("verify-otp")
           /\ last'.req.email = last.req.email
           /\ HasFields(last'.req)
           /\ ~MapHas(otpStorage, last.req.email))
          => NoSessionFound(last') /\ otpStorage' = otpStorage]_vars

\* the four requests succeeded one after the other for a valid email, and the
\* session is gone
C5_Witness ==
    /\ last.scenario = "delivered"
    /\ ValidEmail(last.req.email)
    /\ Len(last.mail.attachments) = 11
    /\ ~MapHas(otpStorage, last.req.email)

----------------------------------------------------------------------------
(* C6 *)

\* the store without the entry of the request's email, the others as they were
WithoutSession(req) ==
    [x \in (DOMAIN otpStorage) \ {req.email} |-> otpStorage[x]]

\* C6 as stated: a verify-otp at an age of five minutes or more answers Expired
\* and deletes the session.
C6_ExpiredFromFiveMinutes ==
    [][(/\ Answers("verify-otp")
        /\ HasFields(last'.req)
        /\ MapHas(otpStorage, last'.req.email)
        /\ Age(last'.req) >= FiveMinutesMs)
       => /\ Expired(last')
          /\ otpStorage' = WithoutSession(last'.req)]_vars

\* C6, amended: a verify-otp at an age of more than five minutes answers Expired
\* and deletes the session, and the same verify-otp made again right after it
\* (no session issued since) answers NoSessionFound.
C6_ExpiredAfterFiveMinutes ==
    [][/\ (/\ Answers("verify-otp")
           /\ HasFields(last'.req)
           /\ MapHas(otpStorage, last'.req.email)
           /\ Age(last'.req) > FiveMinutesMs)
          => /\ Expired(last')
             /\ otpStorage' = WithoutSession(last'.req)
       /\ (/\ last.route = "verify-otp"
           /\ Expired(last)
           /\ Answers("verify-otp")
           /\ last'.req = last.req
           /\ ~MapHas(otpStorage, last.req.email))
          => NoSessionFound(last') /\ otpStorage' = otpStorage]_vars

\* a verify-otp with the session's code answered Expired, and its repetition
\* answered NoSessionFound
C6_Witness ==
    /\ last.scenario = "gone"
    /\ NoSessionFound(last)
    /\ ValidEmail(last.req.email)
    /\ ~MapHas(otpStorage, last.req.email)

----------------------------------------------------------------------------
(* C7 *)

\* C7: a verify-otp with a code other than the stored one, on a session aged at
\* most five minutes, answers Mismatch and leaves the store as it was; a
\* verify-otp with the stored code that follows a Mismatch for the same email,
\* still within five minutes of the issuance, succeeds and marks the session
\* verified.
C7_MismatchKeepsSession ==
    [][/\ (/\ Answers("verify-otp")
           /\ HasFields(last'.req)
           /\ MapHas(otpStorage, last'.req.email)
           /\ Age(last'.req) <= FiveMinutesMs
           /\ toString(last'.req.otp) # Session(last'.req).otp)
          => Mismatch(last') /\ otpStorage' = otpStorage
       /\ (/\ last.route = "verify-otp"
           /\ Mismatch(last)
           /\ Answers("verify-otp")
           /\ last'.req.email = last.req.email
           /\ HasFields(last'.req)
           /\ SubmitsStoredCode(last'.req)
           /\ Age(last'.req) <= FiveMinutesMs)
          => /\ Success(last')
             /\ otpStorage'[last'.req.email].verified]_vars

\* a verify-otp succeeded right after a Mismatch for the same email
C7_Witness ==
    /\ last.scenario = "recovered"
    /\ Success(last)
    /\ MapHas(otpStorage, last.req.email)
    /\ otpStorage[last.req.email].verified

----------------------------------------------------------------------------
(* C8 *)

\* C8: the store write of send-otp replaces the email's entry by a session with
\* the code it mails, issuedAt = now and verified = FALSE, whatever the entry was,
\* and touches no other entry; create-order calls the gateway for no email whose
\* session is unverified, and answers NotVerified instead; a verify-otp with a
\* code other than the stored one does not succeed and changes no session.
C8_ReissueReplacesSession ==
    [][/\ Starts("send-otp")
          => /\ Started.mail.otp \in Codes
             /\ otpStorage' =
                    [x \in (DOMAIN otpStorage) \cup {Started.req.email} |->
                        IF x = Started.req.email
                        THEN [otp |-> Started.mail.otp, timestamp |-> now,
                              verified |-> FALSE]
                        ELSE otpStorage[x]]
       /\ Starts("create-order") => Session(Started.req).verified
       /\ (/\ AnswersAtOnce("create-order")
           /\ MapHas(otpStorage, last'.req.email)
           /\ ~Session(last'.req).verified)
          => NotVerified(last')
       /\ (/\ Answers("verify-otp")
           /\ HasFields(last'.req)
           /\ MapHas(otpStorage, last'.req.email)
           /\ toString(last'.req.otp) # Session(last'.req).otp)
          => /\ ~Success(last')
             /\ MapHas(otpStorage', last'.req.email) => otpStorage' = otpStorage]_vars

\* the latest response is a successful verify-otp, so the email's session was
\* verified then; a send-otp now in flight for the email has replaced it, after
\* time 0, by the unverified session with the code it mails
C8_Witness ==
    /\ last.route = "verify-otp"
    /\ Success(last)
    /\ \E i \in 1..Len(pending) :
        /\ pending[i].route = "send-otp"
        /\ pending[i].req.email = last.req.email
        /\ MapHas(otpStorage, last.req.email)
        /\ otpStorage[last.req.email] =
               [otp |-> pending[i].mail.otp, timestamp |-> now, verified |-> FALSE]
        /\ now > 0

----------------------------------------------------------------------------
(* C9 *)

\* C9: a verify-otp that carries an email and a code, for an email the store
\* holds no session for, answers 400 NoSessionFound and leaves the store
\* unchanged.
C9_VerifyBeforeIssue ==
    [][(/\ Answers("verify-otp")
        /\ HasFields(last'.req)
        /\ ~MapHas(otpStorage, last'.req.email))
       => NoSessionFound(last') /\ otpStorage' = otpStorage]_vars

\* NoSessionFound was answered for a valid email while the store was empty and
\* no send-otp was in flight
C9_Witness ==
    /\ last.route = "verify-otp"
    /\ NoSessionFound(last)
    /\ ValidEmail(last.req.email)
    /\ otpStorage = EmptyMap
    /\ pending = << >>

----------------------------------------------------------------------------
(* C10 *)

PaymentVerifiedDeliveryFailed(r) ==
    /\ r.status = 500
    /\ r.body = [status |-> "error", message |-> "Payment verified, but email failed."]

\* C10: verify-payment reaches the mail dispatch only with a matching signature;
\* when the dispatch ends without the success answer, the answer is 500 "Payment
\* verified, but email failed.", no mail was delivered and the store is unchanged.
C10_DeliveryFailureKeepsSession ==
    [][Completes("verify-payment")
       => /\ last'.req.razorpay_signature = SignatureOf(last'.req)
          /\ last'.calls = 1
          /\ last'.status # 200
             => /\ PaymentVerifiedDeliveryFailed(last')
                /\ last'.mail = NoMail
                /\ otpStorage' = otpStorage]_vars

\* the delivery failed for an email whose verified session is still in the store
C10_Witness ==
    /\ last.route = "verify-payment"
    /\ PaymentVerifiedDeliveryFailed(last)
    /\ MapHas(otpStorage, last.req.email)
    /\ otpStorage[last.req.email].verified

----------------------------------------------------------------------------
(* C11 *)

UpstreamFailure(r) ==
    r.status = 500 /\ r.body = [error |-> "Failed to create order"]

\* C11: a create-order whose call of the order gateway is rejected answers 500
\* "Failed to create order" after that one call and leaves the store as it was;
\* and while the session it was authorized by stays verified, the next
\* create-order for the email is not refused: it reaches the gateway again.
C11_OrderFailureKeepsSession ==
    [][/\ (Completes("create-order") /\ last'.status # 200)
           => /\ UpstreamFailure(last')
              /\ last'.calls = 1
              /\ otpStorage' = otpStorage
       /\ (/\ last.scenario = "failed-order"
           /\ Answers("create-order")
           /\ last'.req.email = last.req.email
           /\ MapHas(otpStorage, last.req.email)
           /\ Session(last.req).verified)
           => /\ Completes("create-order")
              /\ last'.calls = 1]_vars

\* the gateway rejected an order for a verified email, and the next response,
\* for the same email, is an order: no verify-otp came in between
C11_Witness ==
    /\ last.scenario = "reordered"
    /\ last.status = 200
    /\ MapHas(otpStorage, last.req.email)
    /\ otpStorage[last.req.email].verified

----------------------------------------------------------------------------
(* C12 *)

DeliveryFailure(r) ==
    r.status = 500 /\ r.body = [error |-> "Failed to send OTP"]

\* C12: send-otp writes the session (new code, issued now, verified = FALSE)
\* before it hands the mail to the transporter; when the dispatch fails the
\* request answers 500 "Failed to send OTP" and the store stays as it was;
\* and a verify-otp that follows with the stored code, within five minutes of
\* the issuance, succeeds and verifies the session.
C12_DispatchFailureKeepsSession ==
    [][/\ Starts("send-otp")
           => /\ MapHas(otpStorage', Started.req.email)
              /\ otpStorage'[Started.req.email] =
                     [otp |-> Started.mail.otp, timestamp |-> now, verified |-> FALSE]
       /\ (Completes("send-otp") /\ last'.status # 200)
           => /\ DeliveryFailure(last')
              /\ last'.mail = NoMail
              /\ otpStorage' = otpStorage
       /\ (/\ last.scenario = "undelivered"
           /\ Answers("verify-otp")
           /\ last'.req.email = last.req.email
           /\ HasFields(last'.req)
           /\ SubmitsStoredCode(last'.req)
           /\ Age(last'.req) <= FiveMinutesMs)
           => /\ Success(last')
              /\ MapHas(otpStorage', last.req.email)
              /\ otpStorage'[last.req.email].verified]_vars

\* the dispatch of a code failed, and the next response is the success of a
\* verify-otp for that email: the session is there, verified
C12_Witness ==
    /\ last.scenario = "unmailed-verified"
    /\ Success(last)
    /\ MapHas(otpStorage, last.req.email)
    /\ otpStorage[last.req.email].verified

----------------------------------------------------------------------------
(* C13 *)

\* C13: no session is verified at the start, and a step leaves a session
\* verified only if the same session (same code, same issuedAt) was verified
\* before the step, or the step is a successful verify-otp for its email that
\* submitted its code at an age of at most five minutes; no other step turns
\* verified to TRUE.
C13_VerifiedOnlyByVerifyOtp ==
    /\ \A e \in DOMAIN otpStorage : ~otpStorage[e].verified
    /\ [][\A e \in DOMAIN otpStorage' :
            otpStorage'[e].verified
            => /\ MapHas(otpStorage, e)
               /\ otpStorage'[e].otp = otpStorage[e].otp
               /\ otpStorage'[e].timestamp = otpStorage[e].timestamp
               /\ \/ otpStorage[e].verified
                  \/ /\ AnswersAtOnce("verify-otp")
                     /\ last'.req.email = e
                     /\ Success(last')
                     /\ SubmitsStoredCode(last'.req)
                     /\ Age(last'.req) <= FiveMinutesMs]_vars

\* the mail of a send-otp was delivered, nothing else is in flight, and the
\* session with the mailed code is verified: a verify-otp with that code was
\* answered while the mail was on its way
C13_Witness ==
    /\ last.route = "send-otp"
    /\ last.status = 200
    /\ pending = << >>
    /\ MapHas(otpStorage, last.req.email)
    /\ otpStorage[last.req.email].otp = last.mail.otp
    /\ otpStorage[last.req.email].verified

----------------------------------------------------------------------------
(* C14 *)

\* C14: a step removes an entry from the store only if it is a verify-otp for
\* that email answered Expired, on a session older than five minutes, or the
\* completion of a verify-payment for that email whose signature matched and
\* whose mail was delivered (answered 200); every other step keeps every key
\* of the store.
C14_SessionLeavesOnlyTwoWays ==
    [][\A e \in DOMAIN otpStorage :
          ~MapHas(otpStorage', e)
          => \/ /\ AnswersAtOnce("verify-otp")
                /\ last'.req.email = e
                /\ HasFields(last'.req)
                /\ Expired(last')
                /\ Age(last'.req) > FiveMinutesMs
             \/ /\ Completes("verify-payment")
                /\ last'.req.email = e
                /\ last'.status = 200
                /\ last'.req.razorpay_signature = SignatureOf(last'.req)
                /\ last'.mail = DeliverableMail(e)]_vars

\* a verify-otp with the code of the session was answered Expired, nothing is
\* in flight, and the store is empty
C14_Witness ==
    /\ last.scenario = "expired"
    /\ Expired(last)
    /\ pending = << >>
    /\ ~MapHas(otpStorage, last.req.email)

----------------------------------------------------------------------------
(* C15 *)

\* C15: a verify-otp that finds a session answers Expired exactly when the
\* session is older than five minutes (now - issuedAt > 5 min, strictly); at an
\* age of at most five minutes the session stays in the store, and at an age
\* of exactly five minutes the stored code is accepted.
C15_ExpiryIsStrict ==
    [][(/\ Answers("verify-otp")
        /\ HasFields(last'.req)
        /\ MapHas(otpStorage, last'.req.email))
       => /\ Expired(last') <=> Age(last'.req) > FiveMinutesMs
          /\ Age(last'.req) <= FiveMinutesMs
                => /\ MapHas(otpStorage', last'.req.email)
                   /\ otpStorage'[last'.req.email].timestamp
                          = Session(last'.req).timestamp
          /\ (Age(last'.req) = FiveMinutesMs /\ SubmitsStoredCode(last'.req))
                => /\ Success(last')
                   /\ otpStorage'[last'.req.email].verified]_vars

\* a verify-otp succeeded on a session aged exactly five minutes, and the
\* session is in the store, verified
C15_Witness ==
    /\ last.scenario = "at-limit"
    /\ Success(last)
    /\ MapHas(otpStorage, last.req.email)
    /\ otpStorage[last.req.email].verified
    /\ now - otpStorage[last.req.email].timestamp >= FiveMinutesMs

----------------------------------------------------------------------------
(* C16 *)

\* C16: verify-otp decides in a fixed order: a missing email or code answers
\* InvalidInput and leaves the store as it was, whatever it holds; else no
\* session answers NoSessionFound; else a session older than five minutes
\* answers Expired and is deleted, whether the code is right or wrong and
\* whether the session is verified or not; else a wrong code answers Mismatch;
\* else the request succeeds.
C16_VerifyOtpOrder ==
    [][Answers("verify-otp")
       => IF ~HasFields(last'.req)
          THEN InvalidInput(last') /\ otpStorage' = otpStorage
          ELSE IF ~MapHas(otpStorage, last'.req.email)
          THEN NoSessionFound(last') /\ otpStorage' = otpStorage
          ELSE IF Age(last'.req) > FiveMinutesMs
          THEN Expired(last') /\ otpStorage' = WithoutSession(last'.req)
          ELSE IF ~SubmitsStoredCode(last'.req)
          THEN Mismatch(last') /\ otpStorage' = otpStorage
          ELSE Success(last')]_vars

\* a verify-otp without a code was answered InvalidInput for an email whose
\* session is older than five minutes: the session is still in the store
C16_Witness ==
    /\ last.route = "verify-otp"
    /\ InvalidInput(last)
    /\ MapHas(otpStorage, last.req.email)
    /\ now - otpStorage[last.req.email].timestamp > FiveMinutesMs

\* a verify-otp with a code other than the session's was answered Expired, and
\* the session is gone
C16_WitnessWrongCodeExpired ==
    /\ last.route = "verify-otp"
    /\ Expired(last)
    /\ last.scenario # "expired"
    /\ ~MapHas(otpStorage, last.req.email)

----------------------------------------------------------------------------
(* C17 *)

\* C17: create-order never tests the age of a session: it is refused at once
\* only when the email has no verified session, so a verified session
\* authorizes it at any age; the clock alone never changes the store; and a
\* verified session changes or leaves the store only when a send-otp for its
\* email overwrites it, a verify-otp for its email is answered Expired, or a
\* verify-payment for its email completes with success.
C17_ExpiryOnlyInVerifyOtp ==
    [][/\ AnswersAtOnce("create-order")
           => /\ NotVerified(last')
              /\ ~(MapHas(otpStorage, last'.req.email) /\ Session(last'.req).verified)
       /\ now' # now => otpStorage' = otpStorage
       /\ \A e \in DOMAIN otpStorage :
             (/\ otpStorage[e].verified
              /\ ~(MapHas(otpStorage', e) /\ otpStorage'[e] = otpStorage[e]))
             => \/ Starts("send-otp") /\ Started.req.email = e
                \/ /\ AnswersAtOnce("verify-otp")
                   /\ last'.req.email = e
                   /\ Expired(last')
                \/ /\ Completes("verify-payment")
                   /\ last'.req.email = e
                   /\ last'.status = 200]_vars

\* a create-order is at the gateway that passed the gate on a session older
\* than five minutes, and that session is still in the store, verified
C17_Witness ==
    \E i \in 1..Len(pending) :
        /\ pending[i].route = "create-order"
        /\ pending[i].aged
        /\ MapHas(otpStorage, pending[i].req.email)
        /\ otpStorage[pending[i].req.email].verified
        /\ now - otpStorage[pending[i].req.email].timestamp > FiveMinutesMs

----------------------------------------------------------------------------
(* C18 *)

\* C18: no request calls a collaborator twice: a request that is suspended has
\* made one call and stays as it is until that call ends, the response of a
\* request that returned before its await counts no call and the response of
\* one that was suspended counts exactly one, and every 500 is the answer to
\* the failure of that one call, given without another.
C18_NoRetry ==
    [][/\ \A i \in 1..Len(pending') : pending'[i].calls = 1
       /\ Len(pending') = Len(pending) => pending' = pending
       /\ Len(pending') > Len(pending) => pending' = Append(pending, Started)
       /\ Len(pending') < Len(pending)
             => \E i \in 1..Len(pending) :
                   /\ pending' = RemoveAt(pending, i)
                   /\ Completes(pending[i].route)
                   /\ last'.req = pending[i].req
                   /\ last'.calls = 1
       /\ last'.n # last.n /\ pending' = pending => last'.calls = 0
       /\ last'.n # last.n /\ last'.status = 500
             => Len(pending') = Len(pending) - 1 /\ last'.calls = 1]_vars

\* the gateway rejected an order; the request answered 500 after its one call,
\* nothing is in flight, and the session that authorized it is still verified
C18_Witness ==
    /\ last.scenario = "failed-order"
    /\ UpstreamFailure(last)
    /\ last.calls = 1
    /\ pending = << >>
    /\ MapHas(otpStorage, last.req.email)
    /\ otpStorage[last.req.email].verified

----------------------------------------------------------------------------
(* C19 *)

\* C19: when a verify-payment completes with success while a send-otp for the
\* same email that started after it is still waiting for its mail, so that the
\* session in the store was issued while the deliverable was in flight, the
\* cleanup does not delete that session.
C19_CleanupSparesNewerSession ==
    [][\A i \in 1..Len(pending) :
          (/\ pending[i].route = "verify-payment"
           /\ pending' = RemoveAt(pending, i)
           /\ Answers("verify-payment")
           /\ last'.req = pending[i].req
           /\ last'.status = 200
           /\ MapHas(otpStorage, pending[i].req.email)
           /\ \E j \in (i + 1)..Len(pending) :
                 /\ pending[j].route = "send-otp"
                 /\ pending[j].req.email = pending[i].req.email)
          => /\ MapHas(otpStorage', pending[i].req.email)
             /\ otpStorage'[pending[i].req.email] = Session(pending[i].req)]_vars

----------------------------------------------------------------------------
(* C20 *)

\* C20: whatever is in flight, the start of a send-otp sets the session of its
\* email to the code it mails (issued now, unverified); the completion of a
\* send-otp, delivered or failed and in whatever order, leaves the store as
\* it was; and the code the store holds for an email changes, or appears, only
\* at the start of a send-otp for that email: so the store holds the code
\* of the send-otp that started last.
C20_LastStartedCodeWins ==
    [][/\ Starts("send-otp")
           => /\ MapHas(otpStorage', Started.req.email)
              /\ otpStorage'[Started.req.email] =
                     [otp |-> Started.mail.otp, timestamp |-> now, verified |-> FALSE]
       /\ Completes("send-otp") => otpStorage' = otpStorage
       /\ \A e \in DOMAIN otpStorage' :
             (~MapHas(otpStorage, e) \/ otpStorage'[e].otp # otpStorage[e].otp)
             => Starts("send-otp") /\ Started.req.email = e]_vars

\* two send-otp for one email were in flight; the mail of the second has been
\* delivered while the first still waits, and the store holds the code of the
\* second, not that of the first
C20_Witness ==
    /\ last.route = "send-otp"
    /\ last.status = 200
    /\ \E i \in 1..Len(pending) :
          /\ pending[i].route = "send-otp"
          /\ pending[i].req.email = last.req.email
          /\ pending[i].mail.otp # last.mail.otp
          /\ MapHas(otpStorage, last.req.email)
          /\ otpStorage[last.req.email].otp = last.mail.otp
          /\ ~otpStorage[last.req.email].verified

====
